---- MODULE Spec2Model ----
(***************************************************************************)
(* FastBuffer (repository_after/FastBuffer.hpp): a move-only owner of one  *)
(* heap array.  The model keeps a small pool of object slots and a small   *)
(* heap of addresses; every member function is one action, built from the  *)
(* statements of its body in source order.                                 *)
(*                                                                         *)
(* ScalarIntegrityService (power-of-two validator): the original           *)
(* (repository_before/main.cpp) and the optimized version                  *)
(* (repository_after/ScalarIntegrityService.hpp) are operators on signed   *)
(* integers of Width bits, run side by side under SpecV.                   *)
(***************************************************************************)
EXTENDS Integers, Sequences, FiniteSets, TLC

MaxObjs == 3      \* object slots that can be live at the same time
MaxAddr == 3      \* addresses the allocator can hand out
MaxCount == 2     \* largest element count passed to the sized constructor
Width == 8        \* bits of the signed integer type standing in for int64_t

nullptr == 0

Slot == 1..MaxObjs
Addr == 1..MaxAddr
Ptr == Addr \cup {nullptr}
Count == 0..MaxCount

VARIABLES
    objs,   \* slot -> [live, data_, size_]: the FastBuffer objects
    heap,   \* address -> "free" | "live": the arrays made by new int[n]
    ub,     \* TRUE once delete[] was applied to an address that is not live
    last,   \* the last operation: its name, operands, the state before it
            \* and the heap events of its body, in execution order (kept
            \* under Spec and SpecV)
    num,    \* the validator run: the value and, for the original and the
            \* optimized version, whether it was called and what it returned
    track   \* history of one move: source a, target b, the pointer p and
            \* size n that moved, rel, the releases of p since, and first,
            \* the one of a and b destroyed first (kept under SpecT)

vars == <<objs, heap, ub, last, num, track>>

\* The validator is not part of a FastBuffer run.
NumIdle == [value |-> 0, origDone |-> FALSE, orig |-> FALSE,
            optDone |-> FALSE, opt |-> FALSE]

\* Storage of a slot that holds no object (before construction, after
\* destruction).
Dead == [live |-> FALSE, data_ |-> nullptr, size_ |-> 0]

----------------------------------------------------------------------------
(* Statements.  A body runs on a record m = [objs, heap, ub, ev].           *)

Start == [objs |-> objs, heap |-> heap, ub |-> ub, ev |-> <<>>]

\* delete[] p : a no-op on nullptr, releases a live array, and is undefined
\* (recorded in ub) on an address that holds no live array.
DeleteArr(m, p) ==
    IF p = nullptr
    THEN [m EXCEPT !.ev = Append(@, [k |-> "delete", p |-> nullptr, o |-> 0])]
    ELSE [m EXCEPT !.heap[p] = "free",
                   !.ub = m.ub \/ m.heap[p] # "live",
                   !.ev = Append(@, [k |-> "delete", p |-> p, o |-> 0])]

\* The values a read of o.data_ can produce.  Reading a pointer whose array
\* has been released yields an invalid pointer value: any value.
LoadData(m, o) ==
    LET p == m.objs[o].data_
    IN IF p = nullptr \/ m.heap[p] = "live" THEN {p} ELSE Ptr

\* The read of o.data_ that produced v, as an event.
Loaded(m, o, v) ==
    [m EXCEPT !.ev = Append(@, [k |-> "load", p |-> v, o |-> o])]

\* The addresses new int[n] can return: any address holding no live array.
NewArr(m) == {a \in Addr : m.heap[a] = "free"}

\* new int[n] returning a: the array becomes live.
Allocate(m, a) ==
    [m EXCEPT !.heap[a] = "live",
              !.ev = Append(@, [k |-> "new", p |-> a, o |-> 0])]

\* The member initialisers  : data_(d), size_(n)  of a constructor of o.
InitMembers(m, o, d, n) ==
    [m EXCEPT !.objs[o] = [live |-> TRUE, data_ |-> d, size_ |-> n],
              !.ev = @ \o <<[k |-> "store_data", p |-> d, o |-> o],
                            [k |-> "store_size", p |-> n, o |-> o]>>]

\* o.data_ = v;
SetData(m, o, v) ==
    [m EXCEPT !.objs[o].data_ = v,
              !.ev = Append(@, [k |-> "store_data", p |-> v, o |-> o])]

\* o.size_ = n;
SetSize(m, o, n) ==
    [m EXCEPT !.objs[o].size_ = n,
              !.ev = Append(@, [k |-> "store_size", p |-> n, o |-> o])]

\* The history of a move.  A move starts a history when none is running,
\* when it involves an object of the running one, or when both objects of
\* the running one are gone.  A history ends when the storage of one of its
\* objects is constructed anew or when new hands its address out again;
\* until then every release of its pointer is counted.  hist tells whether
\* the run keeps the history (SpecT) or the last operation (Spec).
NoTrack == [hist |-> TRUE, on |-> FALSE, a |-> 0, b |-> 0, p |-> nullptr,
            n |-> 0, rel |-> 0, first |-> 0]
NoHistory == [NoTrack EXCEPT !.hist = FALSE]

CountOf(ev, p) ==
    Cardinality({i \in DOMAIN ev :
                    ev[i].k = "delete" /\ ev[i].p = p /\ p # nullptr})

NextTrack(m, op, this, other) ==
    LET isMove == op \in {"MoveConstruct", "MoveAssign"}
        over == track.on /\ ~m.objs[track.a].live /\ ~m.objs[track.b].live
        mine == track.on /\ {this, other} \cap {track.a, track.b} # {}
        rebuilt == /\ op \in {"DefaultConstruct", "SizedConstruct"}
                   /\ this \in {track.a, track.b}
        reused == \E i \in DOMAIN m.ev :
                     m.ev[i].k = "new" /\ m.ev[i].p = track.p
        gone == op = "Destroy" /\ this \in {track.a, track.b}
    IN IF ~track.hist THEN track
       ELSE IF isMove /\ (~track.on \/ mine \/ over)
       THEN [hist |-> TRUE, on |-> TRUE, a |-> other, b |-> this,
             p |-> objs[other].data_, n |-> objs[other].size_,
             rel |-> CountOf(m.ev, objs[other].data_), first |-> 0]
       ELSE IF ~track.on THEN track
       ELSE IF rebuilt \/ reused THEN NoTrack
       ELSE [track EXCEPT !.rel = @ + CountOf(m.ev, track.p),
                          !.first = IF gone /\ @ = 0 THEN this ELSE @]

\* End of a member function that returns v (<<>> for none): the record
\* becomes the new state.
Return(m, op, this, other, count, v) ==
    /\ objs' = m.objs
    /\ heap' = m.heap
    /\ ub' = m.ub
    /\ last' = IF track.hist THEN last
               ELSE [op |-> op, this |-> this, other |-> other,
                     count |-> count, pre |-> objs, preHeap |-> heap,
                     ev |-> m.ev, ret |-> v]
    /\ track' = NextTrack(m, op, this, other)
    /\ UNCHANGED num

\* End of a constructor, an assignment or the destructor.
Commit(m, op, this, other, count) == Return(m, op, this, other, count, <<>>)

----------------------------------------------------------------------------
(* Member functions.                                                        *)

\* FastBuffer() noexcept : data_(nullptr), size_(0) {}
DefaultConstruct(this) ==
    /\ ~objs[this].live
    /\ LET m0 == Start
           m1 == InitMembers(m0, this, nullptr, 0)
       IN Commit(m1, "DefaultConstruct", this, 0, 0)

\* Variant of SizedConstruct: data_(new int[size]) without the test on size.
SizedConstruct_AlwaysAllocates(this, size) ==
    /\ ~objs[this].live
    /\ LET m0 == Start
       IN \/ \E a \in NewArr(m0) :
               LET m1 == Allocate(m0, a)
                   m2 == InitMembers(m1, this, a, size)
               IN Commit(m2, "SizedConstruct", this, 0, size)
          \/ Commit(m0, "SizedConstructThrow", this, 0, size)

\* explicit FastBuffer(size) : data_(size ? new int[size] : nullptr),
\*                             size_(size) {}
\* new int[size] either returns a fresh array or throws; when it throws no
\* object is produced.
SizedConstruct(this, size) ==
    /\ ~objs[this].live
    /\ LET m0 == Start
       IN IF size = 0
          THEN LET m1 == InitMembers(m0, this, nullptr, size)
               IN Commit(m1, "SizedConstruct", this, 0, size)
          ELSE \/ \E a \in NewArr(m0) :
                    LET m1 == Allocate(m0, a)
                        m2 == InitMembers(m1, this, a, size)
                    IN Commit(m2, "SizedConstruct", this, 0, size)
               \/ Commit(m0, "SizedConstructThrow", this, 0, size)

\* Variant of MoveConstruct: the source is not reset at all.
MoveConstruct_KeepsSource(this, other) ==
    /\ ~objs[this].live
    /\ objs[other].live
    /\ LET m0 == Start
       IN \E v \in LoadData(m0, other) :
            LET m1 == InitMembers(Loaded(m0, other, v), this, v,
                                  m0.objs[other].size_)
            IN Commit(m1, "MoveConstruct", this, other, 0)

\* Variant of MoveConstruct: other.size_ = 0 is missing.
MoveConstruct_KeepsSourceSize(this, other) ==
    /\ ~objs[this].live
    /\ objs[other].live
    /\ LET m0 == Start
       IN \E v \in LoadData(m0, other) :
            LET m1 == InitMembers(Loaded(m0, other, v), this, v,
                                  m0.objs[other].size_)
                m2 == SetData(m1, other, nullptr)
            IN Commit(m2, "MoveConstruct", this, other, 0)

\* Variant of MoveConstruct: other.data_ = nullptr is missing.
MoveConstruct_KeepsSourcePtr(this, other) ==
    /\ ~objs[this].live
    /\ objs[other].live
    /\ LET m0 == Start
       IN \E v \in LoadData(m0, other) :
            LET m1 == InitMembers(Loaded(m0, other, v), this, v,
                                  m0.objs[other].size_)
                m3 == SetSize(m1, other, 0)
            IN Commit(m3, "MoveConstruct", this, other, 0)

\* Variant of MoveConstruct: a deep copy - a new array is made, the elements
\* are copied one by one and the source's array is released.
MoveConstruct_DeepCopy(this, other) ==
    /\ ~objs[this].live
    /\ objs[other].live
    /\ LET m0 == Start
           n == m0.objs[other].size_
       IN \E v \in LoadData(m0, other) :
            IF v = nullptr
            THEN LET m1 == InitMembers(Loaded(m0, other, v), this, v, n)
                     m2 == SetData(m1, other, nullptr)
                     m3 == SetSize(m2, other, 0)
                 IN Commit(m3, "MoveConstruct", this, other, 0)
            ELSE \E a \in NewArr(m0) :
                   LET m1 == InitMembers(Allocate(Loaded(m0, other, v), a),
                                         this, a, n)
                       mc == [m1 EXCEPT !.ev = @ \o
                                 [i \in 1..n |-> [k |-> "copy", p |-> v, o |-> i]]]
                       md == DeleteArr(mc, v)
                       m2 == SetData(md, other, nullptr)
                       m3 == SetSize(m2, other, 0)
                   IN Commit(m3, "MoveConstruct", this, other, 0)

\* FastBuffer(FastBuffer&& other) noexcept
MoveConstruct(this, other) ==
    /\ ~objs[this].live
    /\ objs[other].live
    /\ LET m0 == Start
       IN \E v \in LoadData(m0, other) :
            LET m1 == InitMembers(Loaded(m0, other, v), this, v,
                                  m0.objs[other].size_)
                m2 == SetData(m1, other, nullptr)
                m3 == SetSize(m2, other, 0)
            IN Commit(m3, "MoveConstruct", this, other, 0)

\* Variant of MoveAssign: if (this == &other) return *this; comes first.
MoveAssign_SelfGuard(this, other) ==
    /\ objs[this].live
    /\ objs[other].live
    /\ LET m0 == Start
           m1 == DeleteArr(m0, m0.objs[this].data_)
       IN IF this = other
          THEN Commit(m0, "MoveAssign", this, other, 0)
          ELSE \E v \in LoadData(m1, other) :
                 LET m2 == SetData(Loaded(m1, other, v), this, v)
                     m3 == SetSize(m2, this, m2.objs[other].size_)
                     m4 == SetData(m3, other, nullptr)
                     m5 == SetSize(m4, other, 0)
                 IN Commit(m5, "MoveAssign", this, other, 0)

\* Variant of MoveAssign: other.size_ = 0 is missing.
MoveAssign_KeepsSourceSize(this, other) ==
    /\ objs[this].live
    /\ objs[other].live
    /\ LET m0 == Start
           m1 == DeleteArr(m0, m0.objs[this].data_)
       IN \E v \in LoadData(m1, other) :
            LET m2 == SetData(Loaded(m1, other, v), this, v)
                m3 == SetSize(m2, this, m2.objs[other].size_)
                m4 == SetData(m3, other, nullptr)
            IN Commit(m4, "MoveAssign", this, other, 0)

\* Variant of MoveAssign: other.data_ = nullptr is missing.
MoveAssign_KeepsSourcePtr(this, other) ==
    /\ objs[this].live
    /\ objs[other].live
    /\ LET m0 == Start
           m1 == DeleteArr(m0, m0.objs[this].data_)
       IN \E v \in LoadData(m1, other) :
            LET m2 == SetData(Loaded(m1, other, v), this, v)
                m3 == SetSize(m2, this, m2.objs[other].size_)
                m5 == SetSize(m3, other, 0)
            IN Commit(m5, "MoveAssign", this, other, 0)

\* Variant of MoveAssign: delete[] data_ is missing.
MoveAssign_NoRelease(this, other) ==
    /\ objs[this].live
    /\ objs[other].live
    /\ LET m0 == Start
           m1 == m0
       IN \E v \in LoadData(m1, other) :
            LET m2 == SetData(Loaded(m1, other, v), this, v)
                m3 == SetSize(m2, this, m2.objs[other].size_)
                m4 == SetData(m3, other, nullptr)
                m5 == SetSize(m4, other, 0)
            IN Commit(m5, "MoveAssign", this, other, 0)

\* FastBuffer& operator=(FastBuffer&& other) noexcept; this and other may be
\* the same object.
MoveAssign(this, other) ==
    /\ objs[this].live
    /\ objs[other].live
    /\ LET m0 == Start
           m1 == DeleteArr(m0, m0.objs[this].data_)
       IN \E v \in LoadData(m1, other) :
            LET m2 == SetData(Loaded(m1, other, v), this, v)
                m3 == SetSize(m2, this, m2.objs[other].size_)
                m4 == SetData(m3, other, nullptr)
                m5 == SetSize(m4, other, 0)
            IN Commit(m5, "MoveAssign", this, other, 0)

\* Variant of Destroy: the body is empty.
Destroy_NoRelease(this) ==
    /\ objs[this].live
    /\ LET m0 == Start
           m2 == [m0 EXCEPT !.objs[this] = Dead]
       IN Commit(m2, "Destroy", this, 0, 0)

\* ~FastBuffer() noexcept { delete[] data_; }  The object is gone afterwards.
Destroy(this) ==
    /\ objs[this].live
    /\ LET m0 == Start
           m1 == DeleteArr(m0, m0.objs[this].data_)
           m2 == [m1 EXCEPT !.objs[this] = Dead]
       IN Commit(m2, "Destroy", this, 0, 0)

\* Variant of Data: hands the array over like a release(): returns data_ and
\* empties the object.
Data_Releases(this) ==
    /\ objs[this].live
    /\ LET m0 == Start
           m1 == SetData(m0, this, nullptr)
           m2 == SetSize(m1, this, 0)
       IN Return(m2, "data", this, 0, 0, <<m0.objs[this].data_>>)

\* int* data() noexcept { return data_; }
Data(this) ==
    /\ objs[this].live
    /\ LET m0 == Start
       IN Return(m0, "data", this, 0, 0, <<m0.objs[this].data_>>)

\* const int* data() const noexcept { return data_; }
DataConst(this) ==
    /\ objs[this].live
    /\ LET m0 == Start
       IN Return(m0, "dataConst", this, 0, 0, <<m0.objs[this].data_>>)

\* std::size_t size() const noexcept { return size_; }
Size(this) ==
    /\ objs[this].live
    /\ LET m0 == Start
       IN Return(m0, "size", this, 0, 0, <<m0.objs[this].size_>>)

----------------------------------------------------------------------------
Init ==
    /\ objs = [s \in Slot |-> Dead]
    /\ heap = [a \in Addr |-> "free"]
    /\ ub = FALSE
    /\ last = [op |-> "init", this |-> 0, other |-> 0, count |-> 0,
               pre |-> [s \in Slot |-> Dead],
               preHeap |-> [a \in Addr |-> "free"], ev |-> <<>>,
               ret |-> <<>>]
    /\ num = NumIdle
    /\ track = NoHistory

DoDefaultConstruct == \E s \in Slot : DefaultConstruct(s)
DoSizedConstruct == \E s \in Slot, n \in Count : SizedConstruct(s, n)
DoMoveConstruct == \E s, t \in Slot : MoveConstruct(s, t)
DoMoveAssign == \E s, t \in Slot : MoveAssign(s, t)
DoDestroy == \E s \in Slot : Destroy(s)
DoData == \E s \in Slot : Data(s)
DoDataConst == \E s \in Slot : DataConst(s)
DoSize == \E s \in Slot : Size(s)

Next ==
    \/ DoDefaultConstruct
    \/ DoSizedConstruct
    \/ DoMoveConstruct
    \/ DoMoveAssign
    \/ DoDestroy
    \/ DoData
    \/ DoDataConst
    \/ DoSize

Spec == Init /\ [][Next]_vars

\* The same operations, observed through the history of a move.
InitT ==
    /\ objs = [s \in Slot |-> Dead]
    /\ heap = [a \in Addr |-> "free"]
    /\ ub = FALSE
    /\ last = [op |-> "init", this |-> 0, other |-> 0, count |-> 0,
               pre |-> [s \in Slot |-> Dead],
               preHeap |-> [a \in Addr |-> "free"], ev |-> <<>>,
               ret |-> <<>>]
    /\ num = NumIdle
    /\ track = NoTrack

SpecT == InitT /\ [][Next]_vars

TypeOK ==
    /\ objs \in [Slot -> [live : BOOLEAN, data_ : Ptr, size_ : Count]]
    /\ heap \in [Addr -> {"free", "live"}]
    /\ ub \in BOOLEAN

----------------------------------------------------------------------------
(* ScalarIntegrityService.                                                  *)

\* The values of the signed type: two's complement on Width bits.
IntMin == -(2 ^ (Width - 1))
IntMax == 2 ^ (Width - 1) - 1
IntT == IntMin..IntMax

\* The bit pattern of v as an unsigned number, and back.
ToUnsigned(v) == v % (2 ^ Width)
ToSigned(u) == IF u > IntMax THEN u - 2 ^ Width ELSE u

\* Signed arithmetic of the type: the result keeps Width bits.
Wrap(x) == ToSigned(x % (2 ^ Width))

\* a & b on the bit patterns, bit by bit from the least significant one.
RECURSIVE BitAndU(_, _, _)
BitAndU(a, b, n) ==
    IF n = 0 THEN 0
    ELSE (IF a % 2 = 1 /\ b % 2 = 1 THEN 1 ELSE 0)
         + 2 * BitAndU(a \div 2, b \div 2, n - 1)

BitAnd(a, b) == ToSigned(BitAndU(ToUnsigned(a), ToUnsigned(b), Width))

\* Variant of verify_stochastic_harmony: the guard is value < 0.
verify_stochastic_harmony_ZeroPasses(value) ==
    IF value < 0 THEN FALSE
    ELSE BitAnd(value, Wrap(value - 1)) = 0

\* repository_after: if (value <= 0) return false;
\*                   return (value & (value - 1)) == 0;
verify_stochastic_harmony(value) ==
    IF value <= 0 THEN FALSE
    ELSE BitAnd(value, Wrap(value - 1)) = 0

\* repository_before, BitStreamEngine::decompose_to_binary_stream: the bits
\* of |val|, least significant first; {false} for 0.
RECURSIVE StreamOf(_)
StreamOf(absolute_val) ==
    IF absolute_val > 0
    THEN <<absolute_val % 2 # 0>> \o StreamOf(absolute_val \div 2)
    ELSE <<>>

decompose_to_binary_stream(val) ==
    IF val = 0 THEN <<FALSE>>
    ELSE StreamOf(IF val < 0 THEN -val ELSE val)

\* Variant of analyze: accepts when at least one bit is set.
analyze_AtLeastOne(bits) ==
    Cardinality({i \in DOMAIN bits : bits[i]}) >= 1

\* repository_before, UnitarySetSignature::analyze: counts the set bits and
\* signals when the count is exactly 1.
analyze(bits) ==
    LET non_zero_accumulator == Cardinality({i \in DOMAIN bits : bits[i]})
    IN non_zero_accumulator = 1

\* repository_before, ScalarIntegrityService::verify_stochastic_harmony.
verify_stochastic_harmony_before(value) ==
    IF value <= 0 THEN FALSE
    ELSE analyze(decompose_to_binary_stream(value))

\* One call of each version on the run's value.
CallOptimized ==
    /\ ~num.optDone
    /\ num' = [num EXCEPT !.optDone = TRUE,
                          !.opt = verify_stochastic_harmony(num.value)]
    /\ UNCHANGED <<objs, heap, ub, last, track>>

CallOriginal ==
    /\ ~num.origDone
    /\ num' = [num EXCEPT !.origDone = TRUE,
                          !.orig = verify_stochastic_harmony_before(num.value)]
    /\ UNCHANGED <<objs, heap, ub, last, track>>

InitV ==
    /\ objs = [s \in Slot |-> Dead]
    /\ heap = [a \in Addr |-> "free"]
    /\ ub = FALSE
    /\ last = [op |-> "init", this |-> 0, other |-> 0, count |-> 0,
               pre |-> [s \in Slot |-> Dead],
               preHeap |-> [a \in Addr |-> "free"], ev |-> <<>>,
               ret |-> <<>>]
    /\ \E v \in IntT : num = [NumIdle EXCEPT !.value = v]
    /\ track = NoHistory

NextV ==
    \/ CallOptimized
    \/ CallOriginal

SpecV == InitV /\ [][NextV]_vars

----------------------------------------------------------------------------
(* Vocabulary of the properties.                                            *)

Live == {s \in Slot : objs[s].live}

\* The releases an operation performed: its delete[] events on non-null
\* pointers.
Released(ev) == {i \in DOMAIN ev : ev[i].k = "delete" /\ ev[i].p # nullptr}
ReleasedOf(ev, p) == {i \in Released(ev) : ev[i].p = p}
Allocated(ev) == {i \in DOMAIN ev : ev[i].k = "new"}

LiveAllocs(h) == {a \in Addr : h[a] = "live"}

SelfMoveDone == last.op = "MoveAssign" /\ last.this = last.other

----------------------------------------------------------------------------
\* C1: exclusive ownership - after any sequence of constructions, moves,
\* move assignments (self-move included) and destructions, no two distinct
\* live FastBuffer objects hold the same non-null pointer.
C1_ExclusiveOwnership ==
    \A s, t \in Live :
        (s # t /\ objs[s].data_ # nullptr) => objs[s].data_ # objs[t].data_

\* Two owners exist side by side right after a move handed an array over.
C1_Witness ==
    /\ last.op \in {"MoveConstruct", "MoveAssign"}
    /\ last.pre[last.other].data_ # nullptr
    /\ \E s, t \in Live :
          s # t /\ objs[s].data_ # nullptr /\ objs[t].data_ # nullptr

\* C2: for every live FastBuffer, between operations, data() == nullptr
\* exactly when size() == 0.
C2_NullIffZeroSize ==
    \A s \in Live : (objs[s].data_ = nullptr) <=> (objs[s].size_ = 0)

\* A moved-from source next to the target that took its array.
C2_Witness ==
    /\ last.op = "MoveAssign"
    /\ last.this # last.other
    /\ last.pre[last.other].size_ > 0
    /\ objs[last.other].size_ = 0
    /\ objs[last.this].size_ > 0

\* C3: exactly-once release - delete[] is never applied to an array that is
\* not live (no double free), and destroying an object that holds a
\* non-null pointer releases that array exactly once.
C3_ExactlyOnceRelease ==
    /\ ~ub
    /\ (last.op = "Destroy" /\ last.pre[last.this].data_ # nullptr) =>
          LET p == last.pre[last.this].data_
          IN /\ Cardinality(ReleasedOf(last.ev, p)) = 1
             /\ Cardinality(Released(last.ev)) = 1
             /\ last.preHeap[p] = "live"
             /\ heap[p] = "free"

\* An owner is destroyed while a moved-from object is still around.
C3_Witness ==
    /\ last.op = "Destroy"
    /\ last.pre[last.this].data_ # nullptr
    /\ \E s \in Live : objs[s].data_ = nullptr

\* C4: no leaks - every array that has not been released is held by some
\* live FastBuffer; hence once every object has been destroyed no array is
\* left unreleased.
C4_NoLeaks ==
    /\ \A a \in LiveAllocs(heap) : \E s \in Live : objs[s].data_ = a
    /\ (Live = {}) => (LiveAllocs(heap) = {})

\* The last object has just been destroyed, and it owned an array.
C4_Witness ==
    /\ last.op = "Destroy"
    /\ last.pre[last.this].data_ # nullptr
    /\ Live = {}

\* C5: self-move-assignment leaves the object either with the pointer and
\* size it had (the array still live) or fully empty (nullptr, 0): never a
\* pointer to a released array, never a mix of old and empty values.
C5_SelfMoveState ==
    SelfMoveDone =>
        LET before == last.pre[last.this]
            after == objs[last.this]
        IN \/ /\ after.data_ = before.data_
              /\ after.size_ = before.size_
              /\ after.data_ # nullptr => heap[after.data_] = "live"
           \/ /\ after.data_ = nullptr
              /\ after.size_ = 0

\* An owning object has been move-assigned to itself.
C5_Witness ==
    /\ SelfMoveDone
    /\ last.pre[last.this].data_ # nullptr
    /\ last.pre[last.this].size_ > 0

\* C6: in a self-move-assignment the object's own array is not released
\* before its pointer is read again as the source's pointer.
C6_NoReleaseBeforeSelfRead ==
    SelfMoveDone =>
        ~ \E i, j \in DOMAIN last.ev :
              /\ i < j
              /\ last.ev[i].k = "delete"
              /\ last.ev[i].p # nullptr
              /\ last.ev[i].p = last.pre[last.this].data_
              /\ last.ev[j].k = "load"
              /\ last.ev[j].o = last.this

\* C7: move-constructing B from A = (P, N), N >= 0, gives B = (P, N) and
\* A = (nullptr, 0); no array is created and none is released.
C7_MoveConstruct ==
    last.op = "MoveConstruct" =>
        LET A == last.pre[last.other]
        IN /\ objs[last.this].live
           /\ objs[last.this].data_ = A.data_
           /\ objs[last.this].size_ = A.size_
           /\ objs[last.other].live
           /\ objs[last.other].data_ = nullptr
           /\ objs[last.other].size_ = 0
           /\ Allocated(last.ev) = {}
           /\ Released(last.ev) = {}
           /\ heap = last.preHeap

\* An owning source has been moved into a new object.
C7_Witness ==
    /\ last.op = "MoveConstruct"
    /\ last.pre[last.other].data_ # nullptr
    /\ last.pre[last.other].size_ > 0
    /\ LiveAllocs(heap) # {}

\* C8: move-assigning A = (P1, N1) into a distinct B = (P2, N2), both
\* owning, releases P2 exactly once, leaves P1 unreleased, and gives
\* B = (P1, N1), A = (nullptr, 0).
C8_MoveAssignDistinct ==
    (/\ last.op = "MoveAssign"
     /\ last.this # last.other
     /\ last.pre[last.other].data_ # nullptr
     /\ last.pre[last.this].data_ # nullptr) =>
        LET A == last.pre[last.other]
            B == last.pre[last.this]
        IN /\ Cardinality(ReleasedOf(last.ev, B.data_)) = 1
           /\ ReleasedOf(last.ev, A.data_) = {}
           /\ last.preHeap[B.data_] = "live"
           /\ heap[B.data_] = "free"
           /\ heap[A.data_] = "live"
           /\ objs[last.this].data_ = A.data_
           /\ objs[last.this].size_ = A.size_
           /\ objs[last.other].data_ = nullptr
           /\ objs[last.other].size_ = 0

\* Two owners of different sizes, one move-assigned into the other.
C8_Witness ==
    /\ last.op = "MoveAssign"
    /\ last.this # last.other
    /\ last.pre[last.other].data_ # nullptr
    /\ last.pre[last.this].data_ # nullptr
    /\ last.pre[last.other].size_ # last.pre[last.this].size_

\* C9: a successful FastBuffer(count), count >= 0, has size() == count and
\* data() == nullptr exactly when count == 0; for count > 0 the pointer is
\* a fresh array that no other live object holds.
C9_SizedConstruct ==
    last.op = "SizedConstruct" =>
        LET b == objs[last.this]
        IN /\ b.live
           /\ b.size_ = last.count
           /\ (b.data_ = nullptr) <=> (last.count = 0)
           /\ last.count > 0 =>
                 /\ last.preHeap[b.data_] = "free"
                 /\ heap[b.data_] = "live"
                 /\ Cardinality(Allocated(last.ev)) = 1
                 /\ \A s \in Live \ {last.this} : objs[s].data_ # b.data_

\* A sized construction with count > 0 succeeded next to another owner.
C9_Witness ==
    /\ last.op = "SizedConstruct"
    /\ last.count > 0
    /\ \E s \in Live \ {last.this} : objs[s].data_ # nullptr

\* C10: destroying an empty object (size() == 0: default-constructed,
\* built with count 0, moved-from or emptied by self-move) releases
\* nothing: the live arrays are the same before and after.
C10_DestroyEmpty ==
    (last.op = "Destroy" /\ last.pre[last.this].size_ = 0) =>
        /\ Released(last.ev) = {}
        /\ LiveAllocs(heap) = LiveAllocs(last.preHeap)
        /\ heap = last.preHeap

\* An empty object is destroyed while another object owns an array.
C10_Witness ==
    /\ last.op = "Destroy"
    /\ last.pre[last.this].size_ = 0
    /\ LiveAllocs(heap) # {}

\* C12: when new int[count] cannot be satisfied (count > 0) the constructor
\* throws: no object is produced and the objects and arrays are as before;
\* a throw is the outcome of a sized construction with count > 0 only.
C12_AllocationFailure ==
    /\ last.op = "SizedConstructThrow" =>
          /\ last.count > 0
          /\ ~objs[last.this].live
          /\ objs = last.pre
          /\ heap = last.preHeap
          /\ last.ev = <<>>
    /\ last.op \in {"init", "DefaultConstruct", "SizedConstruct",
                    "SizedConstructThrow", "MoveConstruct", "MoveAssign",
                    "Destroy", "data", "dataConst", "size"}
    /\ (last.op = "SizedConstruct" /\ last.count = 0) => objs[last.this].live

\* The allocator refused a request while objects and arrays existed.
C12_Witness ==
    /\ last.op = "SizedConstructThrow"
    /\ last.count > 0
    /\ LiveAllocs(heap) # {}
    /\ \E a \in Addr : heap[a] = "free"

\* C13: FastBuffer() and FastBuffer(0) both produce (nullptr, 0) and
\* allocate nothing: the live arrays are unchanged.
C13_EmptyConstruction ==
    (\/ last.op = "DefaultConstruct"
     \/ (last.op = "SizedConstruct" /\ last.count = 0)) =>
        /\ objs[last.this] = [live |-> TRUE, data_ |-> nullptr, size_ |-> 0]
        /\ \A s \in Slot \ {last.this} : objs[s] = last.pre[s]
        /\ Allocated(last.ev) = {}
        /\ heap = last.preHeap

\* FastBuffer(0) was constructed while a free address was available.
C13_Witness ==
    /\ last.op = "SizedConstruct"
    /\ last.count = 0
    /\ \E a \in Addr : heap[a] = "free"
    /\ \E s \in Live \ {last.this} : objs[s] = objs[last.this]

\* C20: no dangling handle - every non-null pointer held by a live
\* FastBuffer refers to an array that has not been released.
C20_NoDanglingHandle ==
    \A s \in Live : objs[s].data_ # nullptr => heap[objs[s].data_] = "live"

\* An owner is still live after another owner's array has been released.
C20_Witness ==
    /\ last.op \in {"MoveAssign", "Destroy"}
    /\ Released(last.ev) # {}
    /\ \E s \in Live : objs[s].data_ # nullptr

\* C14: data() (const and non-const) and size() have no side effects - no
\* object's pointer or size and no array changes - and both data()
\* overloads return the object's pointer, size() its element count.
C14_AccessorsPure ==
    last.op \in {"data", "dataConst", "size"} =>
        /\ objs = last.pre
        /\ heap = last.preHeap
        /\ last.ev = <<>>
        /\ last.op \in {"data", "dataConst"} =>
              last.ret = <<last.pre[last.this].data_>>
        /\ last.op = "size" => last.ret = <<last.pre[last.this].size_>>

\* The non-const data() was called on an owner.
C14_Witness ==
    /\ last.op = "data"
    /\ last.ret # <<nullptr>>
    /\ objs[last.this].size_ > 0

\* C18: move construction and move assignment are constant-time: each does
\* four pointer/size stores, assignment in addition one delete[] of the
\* target's old pointer, whatever the sizes; no element is copied and
\* nothing is allocated.
Stores(ev) == {i \in DOMAIN ev : ev[i].k \in {"store_data", "store_size"}}
Deletes(ev) == {i \in DOMAIN ev : ev[i].k = "delete"}
Loads(ev) == {i \in DOMAIN ev : ev[i].k = "load"}

C18_ConstantTimeMove ==
    last.op \in {"MoveConstruct", "MoveAssign"} =>
        /\ Cardinality(Stores(last.ev)) = 4
        /\ Cardinality(Loads(last.ev)) = 1
        /\ Cardinality(Deletes(last.ev)) =
              (IF last.op = "MoveAssign" THEN 1 ELSE 0)
        /\ \A i \in Deletes(last.ev) :
              last.ev[i].p = last.pre[last.this].data_
        /\ Allocated(last.ev) = {}
        /\ DOMAIN last.ev = Stores(last.ev) \cup Loads(last.ev)
                               \cup Deletes(last.ev)

\* A buffer of the largest size has been moved.
C18_Witness ==
    /\ last.op \in {"MoveConstruct", "MoveAssign"}
    /\ last.pre[last.other].size_ = MaxCount
    /\ last.this # last.other

\* C15: for every value v of the signed type, the optimized
\* verify_stochastic_harmony(v) is true exactly when v = 2^k for some k in
\* 0 .. Width-2 (0..62 for int64_t); it is false for 0, for every negative
\* value including the minimum, and for every positive value with more
\* than one set bit.
IsPowerOfTwo(v) == \E k \in 0..(Width - 2) : v = 2 ^ k

C15_PowerOfTwo ==
    num.optDone =>
        /\ num.opt = IsPowerOfTwo(num.value)
        /\ num.value <= 0 => num.opt = FALSE
        /\ num.value = IntMin => num.opt = FALSE

\* The optimized version accepted the largest power of two.
C15_Witness ==
    /\ num.optDone
    /\ num.opt = TRUE
    /\ num.value = 2 ^ (Width - 2)

\* C16: the refactored verify_stochastic_harmony (v & (v-1)) returns the
\* same boolean as the original (decompose into bits, count the set bits,
\* accept a count of exactly 1) for every value of the signed type.
C16_SameAsOriginal ==
    (num.optDone /\ num.origDone) => num.opt = num.orig

\* Both versions have rejected a positive value with several set bits.
C16_Witness ==
    /\ num.optDone
    /\ num.origDone
    /\ num.opt = FALSE
    /\ num.value = IntMax

\* C11: after a move (construction or assignment) from A to B, A can be
\* destroyed independently: whichever of the two is destroyed first, B
\* keeps its pointer and size and its array stays unreleased for as long as
\* B lives, and B's destruction releases that array exactly once.
MoveTracked == track.on /\ track.a # track.b

C11_SourceIndependentlyDestructible ==
    MoveTracked =>
        /\ objs[track.b].live =>
              /\ objs[track.b].data_ = track.p
              /\ objs[track.b].size_ = track.n
              /\ track.rel = 0
              /\ track.p # nullptr => heap[track.p] = "live"
        /\ objs[track.a].live =>
              /\ objs[track.a].data_ = nullptr
              /\ objs[track.a].size_ = 0
        /\ (~objs[track.b].live /\ track.p # nullptr) =>
              /\ track.rel = 1
              /\ heap[track.p] = "free"

\* An array moved from A to B; A was destroyed first, then B.
C11_Witness ==
    /\ MoveTracked
    /\ track.p # nullptr
    /\ ~objs[track.a].live
    /\ ~objs[track.b].live
    /\ track.first = track.a

\* The other order: B was destroyed first, then A.
C11_WitnessSourceLast ==
    /\ MoveTracked
    /\ track.p # nullptr
    /\ ~objs[track.a].live
    /\ ~objs[track.b].live
    /\ track.first = track.b

\* C19: for an owning A, A = move(A) followed by A's destruction releases
\* A's original array exactly once in total and leaves it released.
SelfMoveTracked == track.on /\ track.a = track.b /\ track.p # nullptr

C19_SelfMoveThenDestroy ==
    SelfMoveTracked =>
        /\ track.rel <= 1
        /\ ~objs[track.a].live =>
              /\ track.rel = 1
              /\ heap[track.p] = "free"
              /\ \A s \in Live : objs[s].data_ # track.p

\* An owner was move-assigned to itself and has now been destroyed.
C19_Witness ==
    /\ SelfMoveTracked
    /\ ~objs[track.a].live
    /\ track.first = track.a
    /\ track.rel = 1

\* C21: one self-move policy - self-move-assignment always ends with the
\* object empty (nullptr, 0), never unchanged; an owning object's array is
\* released by the self-move itself, an empty object releases nothing.
C21_SelfMoveEmpties ==
    SelfMoveDone =>
        LET before == last.pre[last.this]
        IN /\ objs[last.this] = [live |-> TRUE, data_ |-> nullptr, size_ |-> 0]
           /\ before.data_ # nullptr =>
                 /\ Cardinality(ReleasedOf(last.ev, before.data_)) = 1
                 /\ Cardinality(Released(last.ev)) = 1
                 /\ last.preHeap[before.data_] = "live"
                 /\ heap[before.data_] = "free"
           /\ before.data_ = nullptr =>
                 /\ Released(last.ev) = {}
                 /\ heap = last.preHeap
           /\ \A s \in Slot \ {last.this} : objs[s] = last.pre[s]

\* An owner was move-assigned to itself while another owner was live.
C21_Witness ==
    /\ SelfMoveDone
    /\ last.pre[last.this].data_ # nullptr
    /\ \E s \in Live \ {last.this} : objs[s].data_ # nullptr

\* An empty object was move-assigned to itself while an array was live.
C21_WitnessEmpty ==
    /\ SelfMoveDone
    /\ last.pre[last.this].data_ = nullptr
    /\ LiveAllocs(heap) # {}

\* C22: move assignment between distinct objects with empty operands -
\* empty source into owning target: the target's array is released exactly
\* once and both end empty; owning source into empty target: nothing is
\* released and pointer and size move to the target; empty into empty:
\* nothing changes.
MoveAssignDistinctDone == last.op = "MoveAssign" /\ last.this # last.other

C22_MoveAssignEmptyOperands ==
    MoveAssignDistinctDone =>
        LET src == last.pre[last.other]
            tgt == last.pre[last.this]
            empty == [live |-> TRUE, data_ |-> nullptr, size_ |-> 0]
        IN /\ (src.data_ = nullptr /\ tgt.data_ # nullptr) =>
                 /\ Cardinality(ReleasedOf(last.ev, tgt.data_)) = 1
                 /\ Cardinality(Released(last.ev)) = 1
                 /\ heap[tgt.data_] = "free"
                 /\ objs[last.this] = empty
                 /\ objs[last.other] = empty
           /\ (src.data_ # nullptr /\ tgt.data_ = nullptr) =>
                 /\ Released(last.ev) = {}
                 /\ heap = last.preHeap
                 /\ objs[last.this] = src
                 /\ objs[last.other] = empty
           /\ (src.data_ = nullptr /\ tgt.data_ = nullptr) =>
                 /\ Released(last.ev) = {}
                 /\ heap = last.preHeap
                 /\ objs = last.pre

\* An empty source was assigned into an owning target.
C22_Witness ==
    /\ MoveAssignDistinctDone
    /\ last.pre[last.other].data_ = nullptr
    /\ last.pre[last.this].data_ # nullptr
    /\ last.pre[last.this].size_ > 0

\* An owning source was assigned into an empty target.
C22_WitnessIntoEmpty ==
    /\ MoveAssignDistinctDone
    /\ last.pre[last.other].data_ # nullptr
    /\ last.pre[last.this].data_ = nullptr

\* An empty source was assigned into an empty target.
C22_WitnessBothEmpty ==
    /\ MoveAssignDistinctDone
    /\ last.pre[last.other].data_ = nullptr
    /\ last.pre[last.this].data_ = nullptr
    /\ LiveAllocs(heap) # {}

====
